---- MODULE Spec2Model ----
(***************************************************************************)
(* binview (main.go): the line renderer draw, the per-slot line cache used *)
(* by view, and the interactive loop of main1.                             *)
(*                                                                         *)
(* Text is modelled as the sequence of bytes the program writes: a Go      *)
(* string "\x1B[0m" is <<27, 91, 48, 109>>.  Key tokens are byte sequences *)
(* as well ("q" is <<113>>, the down arrow "\x1B[B" is <<27, 91, 66>>).    *)
(* Go indexes from 0; At(s, i) reads the byte at Go index i.               *)
(*                                                                         *)
(* The terminal behind `out` is followed as far as the frames need it: the *)
(* bytes each screen line holds and the line its cursor is on.             *)
(***************************************************************************)
EXTENDS Integers, Sequences, FiniteSets, TLC

VARIABLES
    \* ---- LineView / draw (main.go 24-102) ----
    Slice,          \* LineView.Slice: the record handed to draw
    CursorPos,      \* LineView.CursorPos: cursor column or -1
    Address,        \* the address argument of Draw
    Out,            \* LineView.Out: the bytes draw wrote (<<>> before the call)
    drawn,          \* TRUE once Draw has returned
    \* ---- main1 (main.go 194-320) ----
    pc,             \* position of main1
    ret,            \* what main1 returned ("running" while it has not)
    pending,        \* chunks the input reader has not delivered yet
    inputEnd,       \* how the input ends after its chunks: "EOF" or "ERR"
    buf,            \* bytes buffered by the bufio.Reader `in`
    slices,         \* the dataset
    colIndex, rowIndex, startRow,
    lastWidth, lastHeight,
    screenWidth, screenHeight,
    message,
    cache,          \* the package-level map[int]string
    lf,             \* line feeds of the current frame
    cursorEsc,      \* last cursor-visibility escape written to out
    \* ---- observations of the current loop iteration ----
    \* the first five describe the frame just rendered (pc = "key", "confirm", "exit")
    rendered,       \* number of rows view rendered in the last frame
    written,        \* slots whose line view wrote in the last frame, in write order
    resized,        \* the last frame's size differed from lastWidth, lastHeight
    sameView,       \* the last frame had the cursor, startRow and size of the one before
    afterCtrlL,     \* the key read before the last frame was ctrl-l
    cursorUp,       \* n of the last "\r\x1B[nA" written (-1: none yet, 0: bare "\r")
    \* the next three are <<>>, "none", <<>> until a key is read in the iteration
    lastKey,        \* token the getKey of the switch returned
    answer,         \* what the confirmation getKey returned: "y", "down", "other", "err"
    atKey,          \* <<rowIndex, colIndex, startRow>> when the key was read
    \* ---- the terminal behind `out` ----
    screen,         \* what each screen line holds, line 0 being the first frame's top
    termLine        \* the line the terminal's cursor is on

drawVars == <<Slice, CursorPos, Address, Out, drawn>>
loopVars == <<colIndex, rowIndex, startRow, lastWidth, lastHeight,
              screenWidth, screenHeight, message, cache, lf>>
obsVars  == <<rendered, written, resized, sameView, afterCtrlL, cursorUp,
              lastKey, answer, atKey>>
termVars == <<screen, termLine>>
mainVars == <<pc, ret, pending, inputEnd, buf, slices, loopVars, cursorEsc, obsVars,
              termVars>>
vars     == <<drawVars, mainVars>>

-----------------------------------------------------------------------------
(* Bytes and text *)

ESC == 27
SPACE == 32
DOT == 46

CURSOR_COLOR     == <<27, 91, 48, 59, 52, 48, 59, 51, 55, 59, 49, 59, 55, 109>>
CELL1_COLOR      == <<27, 91, 48, 59, 52, 48, 59, 51, 55, 109>>
CELL2_COLOR      == <<27, 91, 48, 59, 52, 48, 59, 51, 55, 59, 49, 109>>
ERASE_LINE       == <<27, 91, 48, 109, 27, 91, 48, 75>>
ERASE_SCRN_AFTER == <<27, 91, 48, 109, 27, 91, 48, 74>>
SGR_RESET_SPACE  == <<27, 91, 48, 109, 32>>

RecordSize == 16

At(s, i) == s[i + 1]

\* s[from:to] of Go
SliceOf(s, from, to) == SubSeq(s, from + 1, to)

Min(a, b) == IF a < b THEN a ELSE b
Max(a, b) == IF a > b THEN a ELSE b

\* one uppercase hexadecimal digit as its ASCII code
HexDigit(d) == IF d < 10 THEN 48 + d ELSE 55 + d

RECURSIVE HexDigits(_)
HexDigits(n) == IF n < 16 THEN <<HexDigit(n)>>
                ELSE HexDigits(n \div 16) \o <<HexDigit(n % 16)>>

RECURSIVE Zeros(_)
Zeros(n) == IF n <= 0 THEN <<>> ELSE <<48>> \o Zeros(n - 1)

\* fmt's %0<width>X of a non-negative integer
FmtHex(n, width) == Zeros(width - Len(HexDigits(n))) \o HexDigits(n)

RECURSIVE Blanks(_)
Blanks(n) == IF n <= 0 THEN <<>> ELSE <<SPACE>> \o Blanks(n - 1)

-----------------------------------------------------------------------------
(* draw: the hexadecimal panel *)

HexAttr(i, cursorPos) ==
    IF i = cursorPos THEN CURSOR_COLOR
    ELSE IF ((i \div 4) % 2) = 0 THEN CELL1_COLOR
    ELSE CELL2_COLOR

HexCell(i, cursorPos, slice) ==
    (IF i > 0 THEN SGR_RESET_SPACE ELSE <<>>)
    \o HexAttr(i, cursorPos) \o FmtHex(At(slice, i), 2)

RECURSIVE HexCells(_, _, _)
HexCells(i, cursorPos, slice) ==
    IF i >= Len(slice) THEN <<>>
    ELSE HexCell(i, cursorPos, slice) \o HexCells(i + 1, cursorPos, slice)

\* two blanks for a missing column
MutHexPadding(i) == Blanks(2 * (RecordSize - i))

\* for i := len(slice); i < 16; i++ { "   " }
RECURSIVE HexPadding(_)
HexPadding(i) == IF i < RecordSize THEN Blanks(3) \o HexPadding(i + 1) ELSE <<>>

HexPanel(cursorPos, slice) ==
    HexCells(0, cursorPos, slice) \o SGR_RESET_SPACE \o HexPadding(Len(slice))

-----------------------------------------------------------------------------
(* draw: the character panel *)

\* the length the first if-chain gives the byte s
DeclaredLength(s) ==
    IF 32 <= s /\ s <= 126 THEN 1
    ELSE IF 194 <= s /\ s <= 223 THEN 2
    ELSE IF 224 <= s /\ s <= 239 THEN 3
    ELSE IF 240 <= s /\ s <= 244 THEN 4
    ELSE 0

IsContinuation(c) == ~(c < 128 \/ c > 191)

\* the length after the bounds test and the continuation loop (0: placeholder)
\* the continuation loop left out
MutAcceptedLength(slice, i) ==
    LET length == DeclaredLength(At(slice, i))
    IN  IF i + length >= Len(slice) THEN 0 ELSE length

AcceptedLength(slice, i) ==
    LET length == DeclaredLength(At(slice, i))
    IN  IF i + length >= Len(slice) THEN 0
        ELSE IF \E j \in 1..(length - 1) : ~IsContinuation(At(slice, i + j)) THEN 0
        ELSE length

GlyphPadding(length) ==
    IF length = 3 THEN Blanks(1) ELSE IF length = 4 THEN Blanks(2) ELSE <<>>

\* a sequence highlighted only when the cursor is on its first byte
MutGlyph(slice, cursorPos, i) ==
    LET length == AcceptedLength(slice, i)
    IN  IF length = 0
        THEN [at |-> i, length |-> 0, cursor |-> (i = cursorPos),
              text |-> <<DOT>>, pad |-> <<>>]
        ELSE [at |-> i, length |-> length,
              cursor |-> (i = cursorPos),
              text |-> SliceOf(slice, i, i + length), pad |-> GlyphPadding(length)]

\* what one pass of the loop body writes at scan index i:
\* at, length (0 for a placeholder), cursor (attribute), text (glyph bytes), pad
Glyph(slice, cursorPos, i) ==
    LET length == AcceptedLength(slice, i)
    IN  IF length = 0
        THEN [at |-> i, length |-> 0, cursor |-> (i = cursorPos),
              text |-> <<DOT>>, pad |-> <<>>]
        ELSE [at |-> i, length |-> length,
              cursor |-> (i <= cursorPos /\ cursorPos < i + length),
              text |-> SliceOf(slice, i, i + length), pad |-> GlyphPadding(length)]

\* the scan index after the pass at i (i += length - 1, then i++)
NextScan(slice, i) ==
    LET length == AcceptedLength(slice, i)
    IN  IF length = 0 THEN i + 1 ELSE i + length

RECURSIVE Glyphs(_, _, _)
Glyphs(slice, cursorPos, i) ==
    IF i >= Len(slice) THEN <<>>
    ELSE <<Glyph(slice, cursorPos, i)>> \o Glyphs(slice, cursorPos, NextScan(slice, i))

GlyphBytes(g) ==
    (IF g.cursor THEN CURSOR_COLOR ELSE CELL1_COLOR) \o g.text \o g.pad

RECURSIVE CharBytes(_)
CharBytes(gs) == IF gs = <<>> THEN <<>> ELSE GlyphBytes(Head(gs)) \o CharBytes(Tail(gs))

CharPanel(cursorPos, slice) == CharBytes(Glyphs(slice, cursorPos, 0))

draw(address, cursorPos, slice) ==
    FmtHex(address, 8) \o <<SPACE>>
    \o HexPanel(cursorPos, slice)
    \o CharPanel(cursorPos, slice)
    \o ERASE_LINE

-----------------------------------------------------------------------------
(* LineView.Draw on bounded inputs *)

MaxLen == 4

SampleBytes == {0, 65, 169, 195, 227, 240}

RECURSIVE SeqsUpTo(_, _)
SeqsUpTo(S, n) ==
    IF n = 0 THEN {<<>>}
    ELSE LET shorter == SeqsUpTo(S, n - 1)
         IN  shorter \cup {Append(s, b) : s \in {t \in shorter : Len(t) = n - 1}, b \in S}

HelloWorld == <<72, 101, 108, 108, 111, 32, 87, 111, 114, 108, 100>>

SampleRecords ==
    { HelloWorld,
      <<195, 169>>, <<195, 65>>,
      <<226, 130, 172>>, <<226, 130, 172, 65>>,
      <<240, 159, 152, 128>>, <<240, 159, 152, 128, 65>>,
      <<65, 195, 169, 66, 226, 130, 172, 67, 240, 159, 152, 128, 68, 0, 127, 69>> }

\* the records view hands to draw: a record holds at least one byte, since the load
\* loop appends a read only when n > 0
DrawRecords == (SeqsUpTo(SampleBytes, MaxLen) \ {<<>>}) \cup SampleRecords

DrawAddresses == {0, 16, 4080}

IdleMain ==
    /\ pc = "idle" /\ ret = "running"
    /\ pending = <<>> /\ inputEnd = "EOF" /\ buf = <<>> /\ slices = <<>>
    /\ colIndex = 0 /\ rowIndex = 0 /\ startRow = 0
    /\ lastWidth = 0 /\ lastHeight = 0 /\ screenWidth = 0 /\ screenHeight = 0
    /\ message = <<>> /\ cache = <<>> /\ lf = 0 /\ cursorEsc = "none"
    /\ rendered = 0 /\ written = <<>> /\ resized = FALSE /\ sameView = FALSE /\ afterCtrlL = FALSE
    /\ cursorUp = -1
    /\ lastKey = <<>> /\ answer = "none" /\ atKey = <<>>
    /\ screen = <<>> /\ termLine = 0

InitDraw ==
    /\ Slice \in DrawRecords
    /\ CursorPos \in -1..(Len(Slice) - 1)
    /\ Address = 0
    /\ Out = <<>>
    /\ drawn = FALSE
    /\ IdleMain

\* func (v LineView) Draw(address int)
Draw(address) ==
    /\ ~drawn
    /\ Address' = address
    /\ Out' = draw(address, CursorPos, Slice)
    /\ drawn' = TRUE
    /\ UNCHANGED <<Slice, CursorPos, mainVars>>

NextDraw == \E address \in DrawAddresses : Draw(address)

SpecDraw == InitDraw /\ [][NextDraw]_vars

-----------------------------------------------------------------------------
(* view and the line cache *)

EmptyCache == <<>>

\* cache[count] of a Go map: the zero value "" for a missing key
CacheGet(c, count) == IF count \in DOMAIN c THEN c[count] ELSE <<>>

\* cache[count] = line
CachePut(c, count, line) ==
    [k \in (DOMAIN c) \cup {count} |-> IF k = count THEN line ELSE c[k]]

\* every line written, whatever the cache holds
MutNeedsWrite(c, count, line) == TRUE

\* f := cache[count]; f != line
NeedsWrite(c, count, line) == CacheGet(c, count) # line

\* MemoryBin.Read with StartY = startY: TRUE when it returns io.EOF
MemoryBinEOF(Data, startY) == startY >= Len(Data)

\* the loop of view from `count` on; st carries lfCount, the cache and what was written:
\* written lists the slots, shown the slots with the line written for each
RECURSIVE viewLoop(_, _, _, _, _, _, _)
viewLoop(Data, homeAddress, csrpos, csrlin, h, count, st) ==
    IF count >= h THEN st
    ELSE IF MemoryBinEOF(Data, homeAddress + count) THEN st
    ELSE LET record == At(Data, homeAddress + count)
             pos    == IF count = csrlin THEN csrpos ELSE -1
             line   == draw((homeAddress + count) * 16, pos, record)
             write  == NeedsWrite(st.cache, count, line)
         IN  viewLoop(Data, homeAddress, csrpos, csrlin, h, count + 1,
                 [lfCount  |-> IF count > 0 THEN st.lfCount + 1 ELSE st.lfCount,
                  cache    |-> IF write THEN CachePut(st.cache, count, line) ELSE st.cache,
                  written  |-> IF write THEN Append(st.written, count) ELSE st.written,
                  shown    |-> IF write
                               THEN Append(st.shown, [slot |-> count, line |-> line])
                               ELSE st.shown,
                  rendered |-> count + 1])

\* view(window, csrpos, csrlin, w, h, out) with window = MemoryBin{Data, StartY}
view(Data, StartY, csrpos, csrlin, w, h, c) ==
    viewLoop(Data, StartY, csrpos, csrlin, h, 0,
             [lfCount |-> 0, cache |-> c, written |-> <<>>, shown |-> <<>>,
              rendered |-> 0])

-----------------------------------------------------------------------------
(* Key tokens *)

_KEY_CTRL_A == <<1>>
_KEY_CTRL_B == <<2>>
_KEY_CTRL_E == <<5>>
_KEY_CTRL_F == <<6>>
_KEY_CTRL_L == <<12>>
_KEY_CTRL_N == <<14>>
_KEY_CTRL_P == <<16>>
_KEY_DOWN   == <<27, 91, 66>>
_KEY_ESC    == <<27>>
_KEY_LEFT   == <<27, 91, 68>>
_KEY_RIGHT  == <<27, 91, 67>>
_KEY_UP     == <<27, 91, 65>>
_KEY_F2     == <<27, 91, 79, 81>>

Key_q == <<113>>
Key_y == <<121>>
Key_n == <<110>>
Key_j == <<106>>
Key_k == <<107>>
Key_h == <<104>>
Key_l == <<108>>
Key_0 == <<48>>
Key_caret  == <<94>>
Key_dollar == <<36>>
Key_lt == <<60>>
Key_gt == <<62>>

QuitKeys  == {Key_q, _KEY_ESC}
DownKeys  == {Key_j, _KEY_DOWN, _KEY_CTRL_N}
UpKeys    == {Key_k, _KEY_UP, _KEY_CTRL_P}
LeftKeys  == {Key_h, _KEY_LEFT, _KEY_CTRL_B}
RightKeys == {Key_l, _KEY_RIGHT, _KEY_CTRL_F}
HomeKeys  == {Key_0, Key_caret, _KEY_CTRL_A}
EndKeys   == {Key_dollar, _KEY_CTRL_E}

\* the tokens getKey is made to return: every case of the switch, and
\* "y", "n" and F2, which the switch has no case for
Keys == QuitKeys \cup DownKeys \cup UpKeys \cup LeftKeys \cup RightKeys
        \cup HomeKeys \cup EndKeys
        \cup {Key_lt, Key_gt, _KEY_CTRL_L, Key_y, Key_n, _KEY_F2}

-----------------------------------------------------------------------------
(* The switch of main1 and what follows it *)

RowLen(data, row) == Len(At(data, row))

\* the switch without its "l" / right / ctrl-f case
MutDispatch(ch, row, col, data) ==
    IF ch \in DownKeys THEN <<IF row < Len(data) - 1 THEN row + 1 ELSE row, col>>
    ELSE IF ch \in UpKeys THEN <<IF row > 0 THEN row - 1 ELSE row, col>>
    ELSE IF ch \in LeftKeys THEN <<row, IF col > 0 THEN col - 1 ELSE col>>
    ELSE IF ch \in HomeKeys THEN <<row, 0>>
    ELSE IF ch \in EndKeys THEN <<row, RowLen(data, row) - 1>>
    ELSE IF ch = Key_lt THEN <<0, col>>
    ELSE IF ch = Key_gt THEN <<Len(data) - 1, col>>
    ELSE <<row, col>>

\* the cases of the switch that move the cursor: <<rowIndex, colIndex>> after it
Dispatch(ch, row, col, data) ==
    IF ch \in DownKeys THEN <<IF row < Len(data) - 1 THEN row + 1 ELSE row, col>>
    ELSE IF ch \in UpKeys THEN <<IF row > 0 THEN row - 1 ELSE row, col>>
    ELSE IF ch \in LeftKeys THEN <<row, IF col > 0 THEN col - 1 ELSE col>>
    ELSE IF ch \in RightKeys THEN <<row, col + 1>>
    ELSE IF ch \in HomeKeys THEN <<row, 0>>
    ELSE IF ch \in EndKeys THEN <<row, RowLen(data, row) - 1>>
    ELSE IF ch = Key_lt THEN <<0, col>>
    ELSE IF ch = Key_gt THEN <<Len(data) - 1, col>>
    ELSE <<row, col>>

\* the column left as the switch set it
MutClampCol(col, row, data) == col

\* if colIndex >= len(slices[rowIndex]) { colIndex = len(slices[rowIndex]) - 1 }
ClampCol(col, row, data) ==
    IF col >= RowLen(data, row) THEN RowLen(data, row) - 1 ELSE col

\* the window moved one row too far down
MutScroll(start, row, height) ==
    IF row < start THEN row
    ELSE IF row >= start + height - 1 THEN row - (height - 1) + 2
    ELSE start

\* the startRow adjustment of lines 309-313
Scroll(start, row, height) ==
    IF row < start THEN row
    ELSE IF row >= start + height - 1 THEN row - (height - 1) + 1
    ELSE start

\* case _KEY_CTRL_L
CacheAfterKey(ch, c) == IF ch = _KEY_CTRL_L THEN EmptyCache ELSE c

\* the cache cleared only when the height changed
MutClearOnSize(lastW, lastH, w, h) == lastH # h

\* lastWidth != screenWidth || lastHeight != screenHeight
ClearOnSize(lastW, lastH, w, h) == lastW # w \/ lastH # h

\* only the width compared
MutCacheAfterSize(c, lastW, lastH, w, h) ==
    IF lastW # w THEN EmptyCache ELSE c

\* the cache test at the top of the loop (lines 243-244)
CacheAfterSize(c, lastW, lastH, w, h) ==
    IF ClearOnSize(lastW, lastH, w, h) THEN EmptyCache ELSE c

-----------------------------------------------------------------------------
(* The input: NewArgf's reader behind bufio.NewReader *)

MaxChunks == 2

\* most bytes an input holds
MaxInput == 19

\* lengths of the chunks the underlying reader delivers per Read call
ChunkLens == {0, 2, 17}

InputPattern == <<72, 195, 169, 0, 105>>

\* the byte at stream offset k
StreamByte(k) == InputPattern[(k % Len(InputPattern)) + 1]

RECURSIVE SumLens(_)
SumLens(ls) == IF ls = <<>> THEN 0 ELSE Head(ls) + SumLens(Tail(ls))

\* the chunks of a stream cut at the lengths ls
ChunksOf(ls) ==
    [c \in 1..Len(ls) |->
        [b \in 1..ls[c] |-> StreamByte(SumLens(SubSeq(ls, 1, c - 1)) + b - 1)]]

Inputs ==
    {ChunksOf(ls) : ls \in {l \in SeqsUpTo(ChunkLens, MaxChunks) : SumLens(l) <= MaxInput}}

\* in.Read(slice1[:]) of bufio.Reader for a 16-byte destination: with nothing
\* buffered it issues one Read of the underlying reader; then it copies what fits.
\* n, err, data: what the call returns; buf, pending: the reader afterwards
bufioRead(b, pend, end) ==
    IF b # <<>>
    THEN LET n == Min(RecordSize, Len(b))
         IN  [n |-> n, err |-> "nil", data |-> SubSeq(b, 1, n),
              buf |-> SubSeq(b, n + 1, Len(b)), pending |-> pend]
    ELSE IF pend = <<>>
    THEN [n |-> 0, err |-> end, data |-> <<>>, buf |-> <<>>, pending |-> pend]
    ELSE LET chunk == Head(pend)
             n     == Min(RecordSize, Len(chunk))
         IN  [n |-> n, err |-> "nil", data |-> SubSeq(chunk, 1, n),
              buf |-> SubSeq(chunk, n + 1, Len(chunk)), pending |-> Tail(pend)]

-----------------------------------------------------------------------------
(* main1 *)

MaxHeight == 3

\* the sizes tty1.Size() is made to report: every height up to MaxHeight, two widths
Heights == 0..MaxHeight
Sizes == {<<80, h>> : h \in Heights} \cup {<<81, MaxHeight>>}

_ANSI_YELLOW == <<27, 91, 48, 59, 51, 51, 59, 49, 109>>
_ANSI_RESET  == <<27, 91, 48, 109>>

\* "(%08X):%02X" of rowIndex*16+colIndex and the byte there, in yellow; nothing when
\* the cursor is outside the dataset (message is "" at line 256)
StatusLine(row, col, data) ==
    IF 0 <= row /\ row < Len(data) /\ 0 <= col /\ col < RowLen(data, row)
    THEN _ANSI_YELLOW \o <<40>> \o FmtHex(row * 16 + col, 8) \o <<41, 58>>
         \o FmtHex(At(At(data, row), col), 2) \o _ANSI_RESET
    ELSE <<>>

\* _ANSI_YELLOW + "\rQuit Sure ? [y/n]" + ERASE_LINE
QuitPrompt ==
    _ANSI_YELLOW
    \o <<13, 81, 117, 105, 116, 32, 83, 117, 114, 101, 32, 63, 32, 91, 121, 47, 110, 93>>
    \o ERASE_LINE

\* the screen lines the model follows
Lines == 0..MaxHeight

\* a line that was erased
Erased == <<>>

\* a line whose text is not known: before the first frame, and after a size change
Disturbed == <<-1>>

DisturbedScreen == [l \in Lines |-> Disturbed]

\* the screen after view wrote the lines `shown` starting at line top: the line of
\* slot k is written k line feeds below top and ends with ERASE_LINE, so it replaces
\* what the screen line held
TermRows(scr, top, shown) ==
    [l \in Lines |->
        IF \E i \in 1..Len(shown) : top + shown[i].slot = l
        THEN LET i == CHOOSE i \in 1..Len(shown) : top + shown[i].slot = l
             IN  shown[i].line
        ELSE scr[l]]

\* the screen after `text` and ERASE_SCRN_AFTER were written at the start of line at
TermStatus(scr, at, text) ==
    [l \in Lines |-> IF l < at THEN scr[l] ELSE IF l = at THEN text ELSE Erased]

\* the screen after `text`, which ends in ERASE_LINE, was written over line at
TermLineWrite(scr, at, text) ==
    [l \in Lines |-> IF l = at THEN text ELSE scr[l]]

\* line feeds view writes for n rendered rows: fmt.Fprintln(out, "\r") when count > 0
ViewLineFeeds(n) == IF n > 0 THEN n - 1 ELSE 0

\* lf left as view returned it
MutLfAfterView(lfCount) == lfCount

\* lf, err := view(...); lf++
LfAfterView(lfCount) == lfCount + 1

Init ==
    /\ Slice = <<>> /\ CursorPos = -1 /\ Address = 0 /\ Out = <<>> /\ drawn = TRUE
    /\ pc = "start" /\ ret = "running"
    /\ pending \in Inputs
    /\ inputEnd \in {"EOF", "ERR"}
    /\ buf = <<>> /\ slices = <<>>
    /\ colIndex = 0 /\ rowIndex = 0 /\ startRow = 0
    /\ lastWidth = 0 /\ lastHeight = 0 /\ screenWidth = 0 /\ screenHeight = 0
    /\ message = <<>> /\ cache = EmptyCache /\ lf = 0 /\ cursorEsc = "none"
    /\ rendered = 0 /\ written = <<>> /\ resized = FALSE /\ sameView = FALSE /\ afterCtrlL = FALSE
    /\ cursorUp = -1
    /\ lastKey = <<>> /\ answer = "none" /\ atKey = <<>>
    /\ screen = DisturbedScreen /\ termLine = 0

\* a return that runs no deferred write
MutReturn(value) ==
    /\ pc' = "exit"
    /\ ret' = value
    /\ cursorEsc' = cursorEsc

\* a return of main1: the deferred calls run, the last of them writes _ANSI_CURSOR_ON
Return(value) ==
    /\ pc' = "exit"
    /\ ret' = value
    /\ cursorEsc' = "on"

\* lines 195-204: cursor off, the deferred cursor on, NewArgf
Start(argfOk) ==
    /\ pc = "start"
    /\ IF argfOk
       THEN /\ pc' = "read" /\ cursorEsc' = "off" /\ UNCHANGED ret
       ELSE Return("err:argf")
    /\ UNCHANGED <<drawVars, pending, inputEnd, buf, slices, loopVars, obsVars, termVars>>

\* one pass of the loading loop that does not leave it (err == nil)
ReadRecord ==
    /\ pc = "read"
    /\ LET r == bufioRead(buf, pending, inputEnd)
       IN  /\ r.err = "nil"
           /\ slices' = IF r.n > 0 THEN Append(slices, r.data) ELSE slices
           /\ buf' = r.buf
           /\ pending' = r.pending
    /\ UNCHANGED <<drawVars, pc, ret, inputEnd, loopVars, cursorEsc, obsVars, termVars>>

\* the pass in which the read fails with an error other than io.EOF
ReadFail ==
    /\ pc = "read"
    /\ LET r == bufioRead(buf, pending, inputEnd)
       IN  /\ r.err = "ERR"
           /\ slices' = IF r.n > 0 THEN Append(slices, r.data) ELSE slices
    /\ Return("err:read")
    /\ UNCHANGED <<drawVars, pending, inputEnd, buf, loopVars, obsVars, termVars>>

\* a dataset of one record taken for an empty one
MutIsEmptyDataset(data) == Len(data) <= 1

\* if len(slices) <= 0 { return io.EOF }
IsEmptyDataset(data) == Len(data) <= 0

\* the pass that meets io.EOF, the empty test, tty.Open and lines 231-237
ReadEnd(ttyOk) ==
    /\ pc = "read"
    /\ LET r    == bufioRead(buf, pending, inputEnd)
           data == IF r.n > 0 THEN Append(slices, r.data) ELSE slices
       IN  /\ r.err = "EOF"
           /\ slices' = data
           /\ IF IsEmptyDataset(data) THEN Return("io.EOF")
              ELSE IF ~ttyOk THEN Return("err:tty")
              ELSE /\ pc' = "frame" /\ UNCHANGED <<ret, cursorEsc>>
    /\ colIndex' = 0 /\ rowIndex' = 0 /\ startRow' = 0
    /\ lastWidth' = 0 /\ lastHeight' = 0
    /\ message' = <<>>
    /\ UNCHANGED <<drawVars, pending, inputEnd, buf, screenWidth, screenHeight,
                   cache, lf, obsVars, termVars>>

\* tty1.Size() fails
SizeFail ==
    /\ pc = "frame"
    /\ Return("err:size")
    /\ lastKey' = <<>> /\ answer' = "none" /\ atKey' = <<>>
    /\ UNCHANGED <<drawVars, pending, inputEnd, buf, slices, loopVars,
                   rendered, written, resized, sameView, afterCtrlL, cursorUp, termVars>>

\* lines 239-268: the size test, view, the status line, up to the getKey call
Frame(w, h) ==
    /\ pc = "frame"
    /\ \E v \in {view(slices, startRow, colIndex, rowIndex - startRow, w - 1, h - 1,
                      CacheAfterSize(cache, lastWidth, lastHeight, w, h))} :
       LET s0 == IF screenWidth # w \/ screenHeight # h THEN DisturbedScreen ELSE screen
           s1 == TermRows(s0, termLine, v.shown)
           at == termLine + ViewLineFeeds(v.rendered) + 1
       IN  /\ cache' = v.cache
           /\ lf' = LfAfterView(v.lfCount)
           /\ rendered' = v.rendered
           /\ written' = v.written
           /\ screen' = TermStatus(s1, at, StatusLine(rowIndex, colIndex, slices))
           /\ termLine' = at
    /\ resized' = (lastWidth # w \/ lastHeight # h)
    /\ sameView' = (/\ atKey = <<rowIndex, colIndex, startRow>>
                    /\ lastWidth = w /\ lastHeight = h)
    /\ afterCtrlL' = (lastKey = _KEY_CTRL_L)
    /\ lastKey' = <<>> /\ answer' = "none" /\ atKey' = <<>>
    /\ cursorEsc' = IF lastWidth # w \/ lastHeight # h THEN "off" ELSE cursorEsc
    /\ lastWidth' = w /\ lastHeight' = h
    /\ screenWidth' = w /\ screenHeight' = h
    /\ message' = <<>>
    /\ pc' = "key"
    /\ UNCHANGED <<drawVars, ret, pending, inputEnd, buf, slices,
                   colIndex, rowIndex, startRow, cursorUp>>

\* lines 305-318 with <<row, col>> left by the switch
AfterSwitch(row, col) ==
    /\ rowIndex' = row
    /\ colIndex' = ClampCol(col, row, slices)
    /\ startRow' = Scroll(startRow, row, screenHeight)
    /\ cursorUp' = IF lf > 0 THEN lf ELSE 0
    /\ termLine' = termLine - (IF lf > 0 THEN lf ELSE 0)
    /\ lf' = 0
    /\ rendered' = 0 /\ written' = <<>>
    /\ resized' = FALSE /\ sameView' = FALSE /\ afterCtrlL' = FALSE
    /\ pc' = "frame"

\* getKey fails at line 269
KeyFail ==
    /\ pc = "key"
    /\ Return("err:key")
    /\ UNCHANGED <<drawVars, pending, inputEnd, buf, slices, loopVars, obsVars, termVars>>

\* getKey returns ch at line 269; the switch; for "q" and escape up to the second getKey
Key(ch) ==
    /\ pc = "key"
    /\ lastKey' = ch
    /\ answer' = "none"
    /\ atKey' = <<rowIndex, colIndex, startRow>>
    /\ IF ch \in QuitKeys
       THEN /\ pc' = "confirm"
            /\ screen' = TermLineWrite(screen, termLine, QuitPrompt)
            /\ UNCHANGED <<rowIndex, colIndex, startRow, cursorUp, cache, lf,
                           rendered, written, resized, sameView, afterCtrlL, termLine>>
       ELSE /\ cache' = CacheAfterKey(ch, cache)
            /\ UNCHANGED screen
            /\ LET rc == Dispatch(ch, rowIndex, colIndex, slices)
               IN  AfterSwitch(rc[1], rc[2])
    /\ UNCHANGED <<drawVars, ret, pending, inputEnd, buf, slices, lastWidth, lastHeight,
                   screenWidth, screenHeight, message, cursorEsc>>

\* any key read without error confirms
MutConfirmed(ch, err) == err = "nil"

\* TRUE when the test of line 278 passes
Confirmed(ch, err) == err = "nil" /\ ch = Key_y

\* the answer dispatched like a key of the switch
MutAfterConfirm(ch, row, col, data) == Dispatch(ch, row, col, data)

\* <<rowIndex, colIndex>> when the test of line 278 fails: the switch case ends,
\* the answer ch is dropped
AfterConfirm(ch, row, col, data) == <<row, col>>

\* what the observation `answer` keeps of the token the second getKey returned
AnswerClass(ch) ==
    IF ch = Key_y THEN "y" ELSE IF ch \in DownKeys THEN "down" ELSE "other"

\* the second getKey returns ch
Confirm(ch) ==
    /\ pc = "confirm"
    /\ answer' = AnswerClass(ch)
    /\ IF Confirmed(ch, "nil")
       THEN /\ Return("nil")
            /\ termLine' = termLine + 1
            /\ UNCHANGED <<rowIndex, colIndex, startRow, cursorUp, lf,
                           rendered, written, resized, sameView, afterCtrlL>>
       ELSE /\ LET rc == AfterConfirm(ch, rowIndex, colIndex, slices)
               IN  AfterSwitch(rc[1], rc[2])
            /\ UNCHANGED <<ret, cursorEsc>>
    /\ UNCHANGED <<drawVars, pending, inputEnd, buf, slices, lastWidth, lastHeight,
                   screenWidth, screenHeight, message, cache, lastKey, atKey, screen>>

\* the second getKey fails
ConfirmFail ==
    /\ pc = "confirm"
    /\ answer' = "err"
    /\ IF Confirmed(<<>>, "err")
       THEN /\ Return("nil")
            /\ termLine' = termLine + 1
            /\ UNCHANGED <<rowIndex, colIndex, startRow, cursorUp, lf,
                           rendered, written, resized, sameView, afterCtrlL>>
       ELSE /\ AfterSwitch(rowIndex, colIndex)
            /\ UNCHANGED <<ret, cursorEsc>>
    /\ UNCHANGED <<drawVars, pending, inputEnd, buf, slices, lastWidth, lastHeight,
                   screenWidth, screenHeight, message, cache, lastKey, atKey, screen>>

Next ==
    \/ \E argfOk \in BOOLEAN : Start(argfOk)
    \/ ReadRecord
    \/ ReadFail
    \/ \E ttyOk \in BOOLEAN : ReadEnd(ttyOk)
    \/ SizeFail
    \/ \E sz \in Sizes : Frame(sz[1], sz[2])
    \/ KeyFail
    \/ \E ch \in Keys : Key(ch)
    \/ \E ch \in Keys : Confirm(ch)
    \/ ConfirmFail

Spec == Init /\ [][Next]_vars

-----------------------------------------------------------------------------
(* Properties of the interactive loop *)

LoopPcs == {"frame", "key", "confirm"}

\* TRUE in the states that follow the dispatch of a key event
Dispatched == pc = "frame" /\ lastKey # <<>>

\* the slots 0..n-1 in rendering order
AllSlots(n) == [k \in 1..n |-> k - 1]

\* C1: cursor invariant. From the end of loading on and after every dispatched key,
\* the dataset holds no empty record, 0 <= rowIndex < len(Dataset) and
\* 0 <= colIndex < len(Dataset[rowIndex]).
CursorInvariant ==
    pc \in LoopPcs =>
        /\ \A r \in 1..Len(slices) : Len(slices[r]) > 0
        /\ 0 <= rowIndex /\ rowIndex < Len(slices)
        /\ 0 <= colIndex /\ colIndex < RowLen(slices, rowIndex)

\* C1 witness: a move down onto a shorter row, where the column had to be clamped
CursorClamped ==
    /\ Dispatched
    /\ lastKey \in DownKeys
    /\ rowIndex = atKey[1] + 1
    /\ colIndex < atKey[2]
    /\ colIndex = RowLen(slices, rowIndex) - 1

\* C2 as stated: after every dispatched key event
\* startRow <= rowIndex < startRow + (screenHeight - 1), for every reported height.
ViewportAnyHeight ==
    Dispatched =>
        /\ startRow <= rowIndex
        /\ rowIndex < startRow + (screenHeight - 1)

\* C2 amended: the viewport invariant holds after every dispatched key event of a
\* frame whose reported height is at least 2 (at least one row fits the window).
\* For a reported height of 1 or 0 the window holds no row: startRow is then rowIndex
\* when the cursor was above the old startRow, and rowIndex - (screenHeight-1) + 1
\* otherwise.
ViewportInvariant ==
    /\ (Dispatched /\ screenHeight >= 2) =>
           /\ startRow <= rowIndex
           /\ rowIndex < startRow + (screenHeight - 1)
    /\ (Dispatched /\ screenHeight <= 1) =>
           startRow = IF rowIndex < atKey[3] THEN rowIndex
                      ELSE rowIndex - (screenHeight - 1) + 1

\* C2 witness: a move down that had to scroll the window
ViewportScrolled ==
    /\ Dispatched
    /\ screenHeight >= 2
    /\ lastKey \in DownKeys
    /\ rowIndex = atKey[1] + 1
    /\ startRow = atKey[3] + 1

\* C3 as stated: a key read that fails stops the loop at once and main1 returns
\* the error, also when it is the read that answers the quit prompt.
KeyErrorStops ==
    answer = "err" => (pc = "exit" /\ ret = "err:key")

\* C4: "q" or escape answered by a key other than "y" leaves rowIndex and colIndex
\* as they were when the "q" was read, and the loop goes on; the answer is not
\* dispatched as a command.
UnconfirmedQuit ==
    (lastKey \in QuitKeys /\ answer \in {"down", "other"}) =>
        /\ pc = "frame" /\ ret = "running"
        /\ rowIndex = atKey[1]
        /\ colIndex = atKey[2]

\* C4 witness: "q" answered by a move-down key on a row that has a row below it
QuitAnsweredDown ==
    /\ pc = "frame"
    /\ lastKey = Key_q
    /\ answer = "down"
    /\ rowIndex = atKey[1]
    /\ rowIndex < Len(slices) - 1

\* C5: main1 returns nil exactly when a "q" or escape read by the switch is
\* answered by "y"; a "y" read by the switch leaves the loop running.
QuitOrdering ==
    /\ ret = "nil" <=> (lastKey \in QuitKeys /\ answer = "y")
    /\ ret = "nil" => pc = "exit"
    /\ lastKey = Key_y => (pc = "frame" /\ ret = "running")

\* C5 witness: escape answered by "y"
QuitConfirmed ==
    /\ pc = "exit" /\ ret = "nil"
    /\ lastKey = _KEY_ESC /\ answer = "y"

\* C6: whenever main1 has returned, the last cursor-visibility escape written is
\* cursor-on.
CursorRestored ==
    pc = "exit" => cursorEsc = "on"

\* C6 witness: a return right after a frame that re-issued cursor-off for a size
\* change, later than the first frame
ExitAfterResize ==
    /\ pc = "exit"
    /\ ret \in {"nil", "err:key"}
    /\ resized /\ cursorUp >= 0
    /\ cursorEsc = "on"

\* C7: a frame with the cursor, startRow and size of the frame before it, and no
\* ctrl-l in between, writes no row; the frame after a ctrl-l writes every rendered
\* row once.
DiffCacheIdempotent ==
    pc = "key" =>
        /\ (sameView /\ ~afterCtrlL) => written = <<>>
        /\ afterCtrlL => written = AllSlots(rendered)

\* C7 witness: a second frame of two rows that wrote none of them
FrameRepeated ==
    /\ pc = "key"
    /\ sameView /\ ~afterCtrlL
    /\ rendered >= 2
    /\ written = <<>>

\* C8: a frame whose size differs from the previous one starts from an empty cache,
\* so it writes every row it renders and the cache holds these rows only; a frame of
\* unchanged size keeps the entries it does not rewrite; a key other than ctrl-l
\* leaves the cache as it is.
ClearOnResize ==
    [][ /\ (pc = "frame" /\ pc' = "key" /\ resized') =>
              /\ written' = AllSlots(rendered')
              /\ DOMAIN cache' = {k - 1 : k \in 1..rendered'}
        /\ (pc = "frame" /\ pc' = "key" /\ ~resized') =>
              \A k \in DOMAIN cache :
                  /\ k \in DOMAIN cache'
                  /\ (\A n \in 1..Len(written') : written'[n] # k) => cache'[k] = cache[k]
        /\ (pc = "key" /\ pc' # "exit" /\ lastKey' # _KEY_CTRL_L) => cache' = cache
      ]_vars

\* C8 witness: a frame, not the first, that met a new size and wrote all its rows
FrameResized ==
    /\ pc = "key"
    /\ resized /\ cursorUp >= 0
    /\ rendered >= 1
    /\ written = AllSlots(rendered)

-----------------------------------------------------------------------------
(* Properties of draw *)

\* the least element of a non-empty set of integers
Least(S) == CHOOSE x \in S : \A y \in S : x <= y

\* the bytes a terminal shows: text with the escape sequences ESC [ ... <letter>
\* removed (the letter is the first byte in 0x40..0x7E after the "[")
RECURSIVE Visible(_)
Visible(bytes) ==
    LET escs == {p \in 1..Len(bytes) : bytes[p] = ESC}
    IN  IF escs = {} THEN bytes
        ELSE LET q    == Least(escs)
                 ends == {t \in (q + 2)..Len(bytes) : 64 <= bytes[t] /\ bytes[t] <= 126}
             IN  IF ends = {} THEN SubSeq(bytes, 1, q - 1)
                 ELSE SubSeq(bytes, 1, q - 1)
                      \o Visible(SubSeq(bytes, Least(ends) + 1, Len(bytes)))

\* visible characters before the character panel of a non-empty record: the address
\* and its blank, then 16 hex slots of 3
PanelColumn == 8 + 1 + 3 * RecordSize

\* the visible text of the character panel in a drawn line
CharText(line) == SubSeq(Visible(line), PanelColumn + 1, Len(Visible(line)))

\* the byte at i starts a well-formed sequence that does not run past the record
WellFormedAt(slice, i) ==
    LET n == DeclaredLength(At(slice, i))
    IN  /\ n >= 1
        /\ i + n <= Len(slice)
        /\ \A j \in 1..(n - 1) : IsContinuation(At(slice, i + j))

\* the byte at i is a 2-byte lead byte followed by a byte that is no continuation
BrokenPairAt(slice, i) ==
    /\ i + 1 < Len(slice)
    /\ DeclaredLength(At(slice, i)) = 2
    /\ ~IsContinuation(At(slice, i + 1))

GlyphsDrawn == Glyphs(Slice, CursorPos, 0)

Placeholder(g) == g.length = 0 /\ g.text = <<DOT>>

\* C9 as stated: at every scan position that starts a well-formed sequence fitting
\* the record, also one ending at the last byte, draw emits the sequence verbatim as
\* one glyph; "Hello World" shows Hello World and C3 A9 shows one glyph.
WellFormedVerbatim ==
    drawn =>
        /\ Out = draw(Address, CursorPos, Slice)
        /\ \A k \in 1..Len(GlyphsDrawn) :
              LET g == GlyphsDrawn[k]
              IN  WellFormedAt(Slice, g.at) =>
                      /\ g.length = DeclaredLength(At(Slice, g.at))
                      /\ g.text = SliceOf(Slice, g.at, g.at + g.length)
        /\ Slice = HelloWorld => CharText(Out) = HelloWorld
        /\ Slice = <<195, 169>> => CharText(Out) = <<195, 169>>

\* C10 as stated: a 2-byte lead byte followed by a byte outside 0x80..0xBF: both
\* bytes are drawn as placeholders ".".
BrokenPairBothDots ==
    drawn =>
        \A k \in 1..Len(GlyphsDrawn) :
            BrokenPairAt(Slice, GlyphsDrawn[k].at) =>
                /\ k < Len(GlyphsDrawn)
                /\ Placeholder(GlyphsDrawn[k])
                /\ GlyphsDrawn[k + 1].at = GlyphsDrawn[k].at + 1
                /\ Placeholder(GlyphsDrawn[k + 1])

\* C10 amended: the lead byte is drawn as a placeholder "." of its own and the scan
\* advances by one byte, so the following byte starts a glyph of its own; that glyph
\* is a placeholder when the byte is the last of the record (C3 41 shows ".."), and
\* a printable byte that is not the last is drawn as itself (C3 41 41 shows ".A.").
BrokenPairIndependent ==
    drawn =>
        /\ \A k \in 1..Len(GlyphsDrawn) :
              BrokenPairAt(Slice, GlyphsDrawn[k].at) =>
                  /\ k < Len(GlyphsDrawn)
                  /\ Placeholder(GlyphsDrawn[k])
                  /\ GlyphsDrawn[k + 1].at = GlyphsDrawn[k].at + 1
                  /\ GlyphsDrawn[k].at + 2 = Len(Slice) => Placeholder(GlyphsDrawn[k + 1])
        /\ Slice = <<195, 65>> => CharText(Out) = <<DOT, DOT>>
        /\ Slice = <<195, 65, 65>> => CharText(Out) = <<DOT, 65, DOT>>

\* C10 witness: the record C3 41 41 drawn
BrokenPairDrawn ==
    /\ drawn
    /\ Slice = <<195, 65, 65>>
    /\ BrokenPairAt(Slice, 0)
    /\ CharText(Out) = <<DOT, 65, DOT>>

\* the visible text of N hex group slots of three and 16-N blank slots
RECURSIVE HexSlots(_, _)
HexSlots(slice, i) ==
    IF i >= RecordSize THEN <<>>
    ELSE (IF i < Len(slice) THEN FmtHex(At(slice, i), 2) \o <<SPACE>> ELSE Blanks(3))
         \o HexSlots(slice, i + 1)

\* what draw writes before the character panel
PanelPrefix == FmtHex(Address, 8) \o <<SPACE>> \o HexPanel(CursorPos, Slice)

\* C11: hex-panel padding. For every record draw is given, of any length N, the hex
\* panel shows N two-digit groups and 16-N blank slots, and the character panel
\* starts at the same visible column for every N.
HexPanelAligned ==
    drawn =>
        /\ SubSeq(Out, 1, Len(PanelPrefix)) = PanelPrefix
        /\ Visible(HexPanel(CursorPos, Slice)) = HexSlots(Slice, 0)
        /\ Len(Visible(PanelPrefix)) = PanelColumn
        /\ SubSeq(Visible(Out), PanelColumn + 1, Len(Visible(Out)))
               = Visible(CharPanel(CursorPos, Slice))

\* a record of three bytes drawn with the cursor on it: 13 blank slots pad the panel
ShortRecordPadded ==
    /\ drawn /\ Len(Slice) = 3 /\ CursorPos = 1
    /\ Len(Visible(HexPanel(CursorPos, Slice))) = 3 * RecordSize
    /\ SubSeq(Visible(HexPanel(CursorPos, Slice)), 3 * Len(Slice) + 1, 3 * RecordSize)
           = Blanks(3 * (RecordSize - Len(Slice)))

\* C12 as stated: in the loop every record but the last holds 16 bytes, whatever the
\* reader returned per call, so the byte at (row, column) is the input byte at
\* offset row*16+column.
RecordAddressing ==
    pc \in LoopPcs =>
        \A r \in 1..Len(slices) :
            /\ r < Len(slices) => Len(slices[r]) = RecordSize
            /\ \A c \in 1..Len(slices[r]) :
                   slices[r][c] = StreamByte((r - 1) * RecordSize + (c - 1))

-----------------------------------------------------------------------------
(* Properties of the transition table *)

\* the tokens the transition table lists
TableKeys == Keys \ {Key_y, Key_n, _KEY_F2}

\* the effect the table gives for a token, before the column is clamped again
TableEffect(ch, row, col, lastRow, len) ==
    IF ch \in DownKeys THEN <<Min(row + 1, lastRow), col>>
    ELSE IF ch \in UpKeys THEN <<Max(row - 1, 0), col>>
    ELSE IF ch \in LeftKeys THEN <<row, Max(col - 1, 0)>>
    ELSE IF ch \in RightKeys THEN <<row, col + 1>>
    ELSE IF ch \in HomeKeys THEN <<row, 0>>
    ELSE IF ch \in EndKeys THEN <<row, len - 1>>
    ELSE IF ch = Key_lt THEN <<0, col>>
    ELSE IF ch = Key_gt THEN <<lastRow, col>>
    ELSE <<row, col>>

\* a column clamped to [0, len-1]
TableClamp(col, len) == Max(0, Min(col, len - 1))

\* C13: transition table. After a listed key has been dispatched in Normal state,
\* (rowIndex, colIndex) is the table's effect on the position the key found, with the
\* column clamped to [0, len(row)-1] of the resulting row; a move right from the last
\* column of a row leaves the column there.
TransitionTable ==
    (Dispatched /\ answer = "none" /\ lastKey \in TableKeys) =>
        LET e == TableEffect(lastKey, atKey[1], atKey[2], Len(slices) - 1,
                             RowLen(slices, atKey[1]))
        IN  /\ rowIndex = e[1]
            /\ colIndex = TableClamp(e[2], RowLen(slices, e[1]))
            /\ (lastKey \in RightKeys /\ atKey[2] = RowLen(slices, atKey[1]) - 1)
                   => colIndex = RowLen(slices, rowIndex) - 1

\* a move right dispatched at the last column of a row of two bytes or more
RightAtLastColumn ==
    /\ Dispatched /\ answer = "none" /\ lastKey \in RightKeys
    /\ RowLen(slices, rowIndex) >= 2
    /\ atKey[2] = RowLen(slices, rowIndex) - 1
    /\ colIndex = atKey[2]

-----------------------------------------------------------------------------
(* Properties of loading *)

\* the returns of main1 that follow tty.Open
AfterOpen == {"err:tty", "err:size", "err:key", "nil"}

\* TRUE when no frame was rendered and no key was read
NothingShown ==
    /\ screenWidth = 0 /\ screenHeight = 0 /\ cache = EmptyCache
    /\ rendered = 0 /\ written = <<>> /\ cursorUp = -1
    /\ lastKey = <<>> /\ answer = "none"

\* C14: an empty dataset is fatal. An input that ends with zero bytes read makes main1
\* return io.EOF, with no frame rendered and no key read; io.EOF is returned for no
\* other input; and tty.Open and the loop are reached only with at least one record,
\* none of them empty.
EmptyDatasetFatal ==
    /\ ret = "io.EOF" => (pc = "exit" /\ slices = <<>> /\ inputEnd = "EOF" /\ NothingShown)
    /\ (pc = "exit" /\ slices = <<>>) =>
           /\ ret \in {"err:argf", "err:read", "io.EOF"}
           /\ (ret = "err:read" => inputEnd = "ERR")
           /\ NothingShown
    /\ (pc \in LoopPcs \/ ret \in AfterOpen) =>
           /\ Len(slices) >= 1
           /\ \A r \in 1..Len(slices) : Len(slices[r]) >= 1

\* an input that delivered reads of no byte and then end-of-stream was refused
EmptyInputRefused ==
    /\ pc = "exit" /\ ret = "io.EOF"
    /\ slices = <<>> /\ pending = <<>> /\ buf = <<>> /\ cursorEsc = "on"

-----------------------------------------------------------------------------
(* Properties of the frame *)

\* C16 as stated, for the frames of a terminal with room for at least one row
\* (height >= 2): when the frame is rendered, 0 <= rowIndex - startRow < screenHeight-1
\* for the size queried in that frame, so the cursor row is among the rows rendered.
CursorRowRendered ==
    (pc = "key" /\ screenHeight >= 2) =>
        /\ 0 <= rowIndex - startRow
        /\ rowIndex - startRow < screenHeight - 1
        /\ rowIndex - startRow < rendered

\* the tokens the switch has no case for
UnlistedKeys == Keys \ TableKeys

\* the size reported in the step is the size of the frame before
SameSize == screenWidth' = screenWidth /\ screenHeight' = screenHeight

\* C18 as stated, for a terminal with room for at least one row (height >= 2): an
\* unlisted key leaves rowIndex, colIndex, startRow and the cache unchanged, also over
\* the next frame when the terminal size is unchanged; ctrl-l leaves rowIndex, colIndex
\* and startRow unchanged.
UnlistedKeyNoOp ==
    [][/\ (pc = "key" /\ pc' = "frame" /\ screenHeight >= 2 /\ lastKey' \in UnlistedKeys) =>
              /\ rowIndex' = rowIndex /\ colIndex' = colIndex /\ startRow' = startRow
              /\ cache' = cache
       /\ (pc = "frame" /\ pc' = "key" /\ screenHeight >= 2 /\ lastKey \in UnlistedKeys
               /\ SameSize) =>
              cache' = cache
       /\ (pc = "key" /\ pc' = "frame" /\ screenHeight >= 2 /\ lastKey' = _KEY_CTRL_L) =>
              /\ rowIndex' = rowIndex /\ colIndex' = colIndex /\ startRow' = startRow
      ]_vars

-----------------------------------------------------------------------------
(* Properties of the cursor highlight *)

\* the positions in a line where an escape sequence starts
Escapes(line) == {p \in 1..Len(line) : line[p] = ESC}

\* the positions where the cursor attribute is switched on
CursorMarks(line) ==
    {p \in Escapes(line) :
        /\ p + Len(CURSOR_COLOR) - 1 <= Len(line)
        /\ SubSeq(line, p, p + Len(CURSOR_COLOR) - 1) = CURSOR_COLOR}

\* how many escape sequences start before position p
EscapeRank(line, p) == Cardinality({q \in Escapes(line) : q < p})

\* the text under the attribute switched on at p: up to the next escape sequence
MarkedText(line, p) ==
    LET from == p + Len(CURSOR_COLOR)
    IN  SubSeq(line, from, Least({q \in Escapes(line) : q > p}) - 1)

\* the index, among the glyphs of the record, of the one whose bytes hold column col
GlyphIndexAt(slice, col) ==
    LET gs == Glyphs(slice, -1, 0)
    IN  CHOOSE j \in 1..Len(gs) :
            gs[j].at <= col /\ col < gs[j].at + Max(1, gs[j].length)

\* a drawn line of the record slice carries the cursor attribute on the hex cell of
\* column col and on the glyph holding column col, and nowhere else. In a line the
\* hex cell i follows 2*i escape sequences and glyph j follows 2*len(slice)+j-1 of them.
HighlightedAt(line, slice, col) ==
    LET gs == Glyphs(slice, -1, 0)
        j  == GlyphIndexAt(slice, col)
    IN  /\ Cardinality(CursorMarks(line)) = 2
        /\ \E p, q \in CursorMarks(line) :
               /\ EscapeRank(line, p) = 2 * col
               /\ MarkedText(line, p) = FmtHex(At(slice, col), 2)
               /\ EscapeRank(line, q) = 2 * Len(slice) + j - 1
               /\ MarkedText(line, q) = gs[j].text \o gs[j].pad

\* C19: single cursor highlight. In every frame the rendered row at slot
\* rowIndex - startRow carries the cursor attribute on exactly one hex cell, the one at
\* colIndex, and on exactly one glyph of the character panel, the one holding
\* colIndex; every other rendered row carries it nowhere.
SingleHighlight ==
    pc = "key" =>
        \A k \in 0..(rendered - 1) :
            LET line == CacheGet(cache, k)
            IN  IF k = rowIndex - startRow
                THEN HighlightedAt(line, At(slices, startRow + k), colIndex)
                ELSE CursorMarks(line) = {}

\* a frame of two rows with the cursor on the second byte of a two-byte sequence
HighlightInsideSequence ==
    /\ pc = "key" /\ rendered = 2
    /\ rowIndex - startRow \in {0, 1}
    /\ colIndex >= 1
    /\ AcceptedLength(At(slices, rowIndex), colIndex - 1) = 2
    /\ Cardinality(CursorMarks(CacheGet(cache, rowIndex - startRow))) = 2
    /\ CursorMarks(CacheGet(cache, 1 - (rowIndex - startRow))) = {}

-----------------------------------------------------------------------------
(* Properties of the terminal *)

\* C17: frame overdraw. The line feeds written in a frame are one between consecutive
\* rendered rows and one before the status line; the count lf of the cursor-up written
\* at the end of the iteration is that number, so the terminal's cursor is back on the
\* first frame's top line whenever a frame starts, for any number of rendered rows
\* and also after the quit prompt was shown and declined.
FrameOverdraw ==
    /\ pc \in {"key", "confirm"} =>
           /\ termLine = (IF rendered > 1 THEN rendered - 1 ELSE 0) + 1
           /\ lf = termLine
    /\ Dispatched => cursorUp >= 1
    /\ pc = "frame" => termLine = 0

\* the prompt was shown under two rendered rows and declined; the cursor went up two
\* lines to the top line
QuitDeclinedOverdrawn ==
    /\ Dispatched /\ lastKey \in QuitKeys /\ answer \in {"down", "other"}
    /\ cursorUp = 2
    /\ termLine = 0

\* the cursor column view hands to draw for the record `row`
CursorColumnOf(row) == IF row = rowIndex THEN colIndex ELSE -1

\* C15: screen consistency. On a terminal that keeps a line until it is written over,
\* erased or disturbed by a size change, after every frame the screen line of each
\* rendered slot k holds draw(16*(startRow+k), cursor column or -1, Dataset[startRow+k]).
ScreenConsistent ==
    pc \in {"key", "confirm"} =>
        \A k \in 0..(rendered - 1) :
            screen[k] = draw((startRow + k) * 16, CursorColumnOf(startRow + k),
                             At(slices, startRow + k))

\* a frame at an unchanged size that wrote slot 0 only: slot 1 was a cache hit and the
\* screen still holds its line
CacheHitShown ==
    /\ pc = "key" /\ ~resized
    /\ rendered = 2 /\ written = <<0>>
    /\ screen[1] = draw((startRow + 1) * 16, -1, At(slices, startRow + 1))
    /\ screen[1] = CacheGet(cache, 1)

====
